---- MODULE Spec2Model ----
(***************************************************************************)
(* Model of the GitHub Copilot gateway bot (github-copilot-bot.py).        *)
(*                                                                         *)
(* One invocation of OpenAIAPIBot.run is a sequential process.  Its        *)
(* position is pc; the steps are cut at the points where it talks to the   *)
(* outside world: the three calls of the token broker bot (VSC-CPT), the   *)
(* HTTP POST, the read of an error body and each line of the event stream. *)
(*                                                                         *)
(* Text that the code inspects character by character (the api key, the    *)
(* model name) is a sequence of one-character strings.  Text that the code *)
(* only passes on or tests for emptiness (content fragments, status words, *)
(* error bodies) is a TLA+ string.                                         *)
(***************************************************************************)
EXTENDS Integers, Sequences, FiniteSets, TLC

VARIABLES
    pc,             \* position of run(): see PcValues
    params,         \* poe.query.parameters: function from the keys present to values
    api_key,        \* local api_key of run()
    model,          \* local model of run()
    broker_calls,   \* every poe.call("VSC-CPT", ...) made so far, in order
    broker_resps,   \* the response of each of those calls, in order
    default_chat,   \* poe.default_chat: the visible conversation
    request,        \* the upstream request once prepared: url, headers, payload
    post_count,     \* number of client.stream("POST", ...) calls issued
    status_code,    \* response.status_code, 0 before a response exists
    lines,          \* the lines response.iter_lines() has delivered so far
    current_event,  \* local current_event of the streaming loop
    out,            \* the writes made to output_msg, in order
    err,            \* the exception that ended run(), NoError while none
    transport_failed, \* TRUE once httpx raised a RequestError
    proxy_ep,       \* local proxy_ep of run(), None until line 198 sets it
    \* The token bot (copilot-token-bot.py), CopilotTokenBot.run:
    tb_pc,          \* position of its run(): see TbPcValues
    tb_params,      \* its poe.query.parameters
    tb_text,        \* its poe.query.text
    vsc_cpt_params, \* the parameters it sends to VSC-CPT
    response_text,  \* its local response_text
    response_data,  \* its local response_data
    chunks,         \* the chunks poe.stream_bot has delivered so far
    tb_out          \* what it has yielded, in order

\* The state of the token bot.
tbVars == <<tb_pc, tb_params, tb_text, vsc_cpt_params, response_text,
            response_data, chunks, tb_out>>

vars == <<pc, params, api_key, model, broker_calls, broker_resps, default_chat,
          request, post_count, status_code, lines, current_event, out, err,
          transport_failed, proxy_ep, tbVars>>

\* The state of the gateway bot.
gatewayVars == <<pc, params, api_key, model, broker_calls, broker_resps,
                 default_chat, request, post_count, status_code, lines,
                 current_event, out, err, transport_failed, proxy_ep>>

brokerVars == <<broker_calls, broker_resps, default_chat>>
httpVars   == <<request, post_count, status_code, lines, current_event, out,
                transport_failed>>

-----------------------------------------------------------------------------
(* Bounds of the model *)

\* Longest event stream the upstream delivers before it closes.
MaxLines == 3

\* Most segments a credential is put together from (see Credentials).
MaxSegs == 4

\* Most turns of a conversation handed over (see ShapeChats).
MaxTurns == 2

\* Largest max_tokens a caller sets (see ShapeParamInputs).
MaxTokens == 2

\* Most chunks the broker streams to the token bot before it closes.
MaxChunks == 2

-----------------------------------------------------------------------------
(* Python values *)

\* Python's None, kept apart from every string: a string is a sequence of
\* one-character strings, and no character is spelled "None".
None == <<"None">>

\* Python truthiness of an optional string: None and "" are falsy.
Truthy(v) == v # None /\ v # <<>>

IsSpace(c) == c \in {" ", "\t", "\n"}

RECURSIVE LStrip(_)
LStrip(s) == IF s # <<>> /\ IsSpace(Head(s)) THEN LStrip(Tail(s)) ELSE s

RECURSIVE RStrip(_)
RStrip(s) ==
    IF s # <<>> /\ IsSpace(s[Len(s)]) THEN RStrip(SubSeq(s, 1, Len(s) - 1)) ELSE s

\* str.strip()
Strip(s) == RStrip(LStrip(s))

\* str.lower(), on the letters the inputs use
LowerChar(c) ==
    CASE c = "C" -> "c" [] c = "O" -> "o" [] c = "D" -> "d"
      [] c = "E" -> "e" [] c = "X" -> "x" [] c = "R" -> "r" [] OTHER -> c

Lower(s) == [i \in 1..Len(s) |-> LowerChar(s[i])]

\* str.startswith(prefix)
StartsWith(s, prefix) ==
    Len(prefix) <= Len(s) /\ SubSeq(s, 1, Len(prefix)) = prefix

\* sub in s
Contains(s, sub) ==
    \E i \in 1..(Len(s) - Len(sub) + 1) : SubSeq(s, i, i + Len(sub) - 1) = sub

-----------------------------------------------------------------------------
(* Text constants of the program *)

S_gpt4o   == <<"g", "p", "t", "-", "4", "o">>
S_custom  == <<"c", "u", "s", "t", "o", "m">>
S_codex   == <<"c", "o", "d", "e", "x">>
S_copilot == <<"c", "o", "p", "i", "l", "o", "t", "-">>

\* Text the program only joins to other text is kept as the pieces joined.
S_Bearer  == <<"Bearer ">>

AuthErrorText ==
    "Could not authenticate with GitHub Copilot. Please provide an API key or complete the GitHub authentication flow."

NoError == [kind |-> "none", msg |-> <<>>]

\* poe.BotError(message): the message is kept as the pieces the f-string joins
BotError(parts) == [kind |-> "BotError", msg |-> parts]

\* an exception of the Python runtime that nothing in run() catches
Uncaught(name) == [kind |-> name, msg |-> <<>>]

-----------------------------------------------------------------------------
(* Inputs *)

\* api_key values a caller may type: blanks only, and a key with blanks around it
\* (the key may also be absent from the parameters, see ParamInputs)
ApiKeyInputs == {<<" ">>, <<" ", "k", " ">>}

ModelInputs == {S_custom, <<"x", "-", "C", "o", "d", "e", "x">>}

CustomModelInputs == {S_copilot \o <<"m">>}

ParamKeys == {"api_key", "model", "custom_model"}

ParamValues(k) ==
    CASE k = "api_key" -> ApiKeyInputs
      [] k = "model" -> ModelInputs
      [] k = "custom_model" -> CustomModelInputs

\* poe.query.parameters or {}: any subset of the keys may be present
WellTyped(p) == \A k \in DOMAIN p : p[k] \in ParamValues(k)

ParamInputs ==
    {p \in UNION {[K -> UNION {ParamValues(k) : k \in K}] : K \in SUBSET ParamKeys} :
        WellTyped(p)}

\* A token as the broker issues it: fields joined by semicolons, one of them
\* the routing hint.
BrokerToken ==
    <<"t", ";", "p", "r", "o", "x", "y", "-", "e", "p", "=", "h">>

\* Responses of the broker bot: free text, or a JSON object with a status and,
\* possibly, a copilot_token.
BrokerResponses ==
    {[json |-> FALSE, status |-> "", copilot_token |-> None]}
    \cup [json : {TRUE}, status : {"authorization_pending", "error"},
          copilot_token : {None}]
    \cup [json : {TRUE}, status : {"acquired"},
          copilot_token : {None, <<>>, BrokerToken}]

\* The conversation so far, as the host hands it over.
ChatInputs == {<<[role |-> "user", text |-> "q"]>>}

\* poe.query.text
QueryText == "q"

\* Status codes of the upstream response.
StatusCodes == {200, 401}

\* str(status_code)
StatusText(code) == CASE code = 200 -> "200" [] code = 401 -> "401"

\* The body of an error response, and the text of a transport failure.
ErrorBodies == {"bad key"}
TransportCauses == {"timed out"}

\* A value that is missing from a JSON object (dict.get falls to its default).
Absent == "<absent>"

\* response_data of the token bot while no data chunk has parsed (None).
NoData == [status |-> Absent, copilot_token |-> Absent, user_code |-> Absent,
           verification_uri |-> Absent]

\* What json.loads makes of the payload of a data line.
Invalid == [kind |-> "invalid", content |-> Absent, delta |-> Absent]
Scalar  == [kind |-> "scalar", content |-> Absent, delta |-> Absent]
\* An object; content is choices[0].delta.content, delta is the delta field.
Object(content, delta) == [kind |-> "object", content |-> content, delta |-> delta]

EventLine(name)        == [prefix |-> "event: ", rest |-> name, parsed |-> Invalid]
DataLine(rest, parsed) == [prefix |-> "data: ", rest |-> rest, parsed |-> parsed]
OtherLine              == [prefix |-> "", rest |-> "", parsed |-> Invalid]

DeltaEvent == "response.output_text.delta"
DoneLine   == DataLine("[DONE]", Invalid)
BadLine    == DataLine("{not json", Invalid)
NullLine   == DataLine("null", Scalar)

\* The lines the upstream may send.
LineInputs ==
    { EventLine(DeltaEvent), EventLine("response.completed"),
      DoneLine, BadLine, NullLine, OtherLine,
      DataLine("{a,b}", Object("a", "b")),
      DataLine("{b,a}", Object("b", "a")),
      DataLine("{,}", Object("", "")),
      DataLine("{}", Object(Absent, Absent)) }

-----------------------------------------------------------------------------
(* The token broker client *)

\* Faulty variant: the flow polls ninety times.
AuthFlowCall_LongPoll ==
    [bot |-> "VSC-CPT", mode |-> "auth_flow",
     poll_interval_secs |-> 5, poll_count |-> 90, output |-> "default_chat"]

\* The two requests _get_token sends to the broker bot VSC-CPT.
QueryTokenCall ==
    [bot |-> "VSC-CPT", mode |-> "query_token",
     poll_interval_secs |-> 0, poll_count |-> 0, output |-> "none"]
AuthFlowCall ==
    [bot |-> "VSC-CPT", mode |-> "auth_flow",
     poll_interval_secs |-> 5, poll_count |-> 30, output |-> "default_chat"]

\* What the broker answers to the auth flow; _get_token does not look at it.
FlowResponse == [json |-> FALSE, status |-> "", copilot_token |-> None]

\* The progress the auth flow writes into the conversation.
FlowProgress == [role |-> "bot", text |-> "auth flow progress"]

\* _try_extract_token: the copilot_token of a JSON response whose status is
\* "acquired", None for anything else.
_try_extract_token(response) ==
    IF response.json /\ response.status = "acquired"
    THEN response.copilot_token
    ELSE None

\* Faulty variant: the value is returned untrimmed.
get_param_untrimmed(p, key, default) ==
    IF key \in DOMAIN p THEN p[key] ELSE default

\* get_param: the value of the key, or the default; strings are trimmed.
get_param(p, key, default) ==
    LET value == IF key \in DOMAIN p THEN p[key] ELSE default
    IN  IF value # None THEN Strip(value) ELSE value

\* Lines 179-185: the model named by the parameters.
ResolveModel(p) ==
    LET m == get_param(p, "model", S_gpt4o)
    IN  IF m = S_custom THEN get_param(p, "custom_model", S_gpt4o) ELSE m

\* Line 188: the broker is asked when the caller gave no api key.
NeedsBroker(key) == ~Truthy(key)

\* Faulty variant: the first query's token is tested against None only.
QuickHit_NotNone(token) == token # None

\* Line 136: _get_token returns after the first query when it has a token.
QuickHit(token) == Truthy(token)

\* Line 191
AuthError == BotError(<<AuthErrorText>>)

\* run(), lines 146-188: read the parameters, pick the model, and either go on
\* with the caller's key or enter _get_token.
Start ==
    /\ pc = "start"
    /\ api_key' = get_param(params, "api_key", None)
    /\ model' = ResolveModel(params)
    /\ pc' = IF NeedsBroker(api_key') THEN "quick" ELSE "resolve"
    /\ UNCHANGED <<tbVars, proxy_ep, params, brokerVars, httpVars, err>>

\* _get_token, lines 134-137: the first, fast query.
QuickQuery ==
    /\ pc = "quick"
    /\ \E r \in BrokerResponses :
        LET token == _try_extract_token(r) IN
        /\ broker_calls' = Append(broker_calls, QueryTokenCall)
        /\ broker_resps' = Append(broker_resps, r)
        /\ IF QuickHit(token)
           THEN api_key' = token /\ pc' = "resolve"
           ELSE api_key' = api_key /\ pc' = "flow"
    /\ UNCHANGED <<tbVars, proxy_ep, params, model, default_chat, httpVars, err>>

\* _get_token, line 140: the auth flow, its progress shown in the conversation.
InteractiveFlow ==
    /\ pc = "flow"
    /\ broker_calls' = Append(broker_calls, AuthFlowCall)
    /\ broker_resps' = Append(broker_resps, FlowResponse)
    /\ default_chat' = Append(default_chat, FlowProgress)
    /\ pc' = "requery"
    /\ UNCHANGED <<tbVars, proxy_ep, params, api_key, model, httpVars, err>>

\* Faulty variant: the result of _get_token is used without the check of line 190.
RequeryAfterFlow_Unchecked ==
    /\ pc = "requery"
    /\ \E r \in BrokerResponses :
        /\ broker_calls' = Append(broker_calls, QueryTokenCall)
        /\ broker_resps' = Append(broker_resps, r)
        /\ api_key' = _try_extract_token(r)
        /\ pc' = "resolve"
    /\ UNCHANGED <<tbVars, proxy_ep, params, model, default_chat, httpVars, err>>

\* _get_token, lines 143-144, and run(), lines 189-191: the query after the
\* flow; without a token the request ends with the authentication error.
RequeryAfterFlow ==
    /\ pc = "requery"
    /\ \E r \in BrokerResponses :
        LET token == _try_extract_token(r) IN
        /\ broker_calls' = Append(broker_calls, QueryTokenCall)
        /\ broker_resps' = Append(broker_resps, r)
        /\ api_key' = token
        /\ IF Truthy(token)
           THEN pc' = "resolve" /\ err' = err
           ELSE pc' = "failed" /\ err' = AuthError
    /\ UNCHANGED <<tbVars, proxy_ep, params, model, default_chat, httpVars>>

-----------------------------------------------------------------------------
(* Endpoint, headers and payload: run(), lines 193-280 *)

S_marker == <<"p", "r", "o", "x", "y", "-", "e", "p", "=">>
S_http   == <<"h", "t", "t", "p">>

\* Faulty variant: the highest index is taken, as str.rfind does.
Find_Last(s, sub, start) ==
    LET hits == {i \in start..(Len(s) - Len(sub)) :
                    SubSeq(s, i + 1, i + Len(sub)) = sub}
    IN  IF hits = {} THEN -1 ELSE CHOOSE i \in hits : \A j \in hits : i >= j

\* str.find(sub, start): the lowest 0-based index at or after start where sub
\* occurs, -1 when there is none.
Find(s, sub, start) ==
    LET hits == {i \in start..(Len(s) - Len(sub)) :
                    SubSeq(s, i + 1, i + Len(sub)) = sub}
    IN  IF hits = {} THEN -1 ELSE CHOOSE i \in hits : \A j \in hits : i <= j

\* get_proxy_endpoint, lines 166-177
get_proxy_endpoint(token_value) ==
    IF ~Truthy(token_value) THEN None
    ELSE LET start == Find(token_value, S_marker, 0) IN
         IF start = -1 THEN None
         ELSE LET from == start + Len(S_marker)
                  semi == Find(token_value, <<";">>, from)
                  end  == IF semi = -1 THEN Len(token_value) ELSE semi
              IN  SubSeq(token_value, from + 1, end)

\* Faulty variant: the name is not lower-cased before the test.
is_codex_model_cased(m) == Contains(m, S_codex)

is_codex_model(m)    == Contains(Lower(m), S_codex)
is_internal_model(m) == StartsWith(m, S_copilot)

\* Faulty variant: the hint is used whatever the model.
base_host_any_model(m, key) ==
    LET ep == get_proxy_endpoint(key) IN
    IF Truthy(ep)
    THEN IF ~StartsWith(ep, S_http) THEN <<"https://">> \o ep ELSE ep
    ELSE IF is_internal_model(m)
         THEN <<"https://copilot-proxy.githubusercontent.com">>
         ELSE <<"https://api.githubcopilot.com">>

\* Lines 201-209
base_host(m, key) ==
    LET ep == get_proxy_endpoint(key) IN
    IF is_internal_model(m)
    THEN IF Truthy(ep)
         THEN IF ~StartsWith(ep, S_http)
              THEN <<"https://">> \o ep
              ELSE ep
         ELSE <<"https://copilot-proxy.githubusercontent.com">>
    ELSE <<"https://api.githubcopilot.com">>

\* Lines 212-221
is_responses_endpoint(m) == is_codex_model(m)

api_url(m, key) ==
    IF is_codex_model(m)
    THEN base_host(m, key) \o <<"/responses">>
    ELSE base_host(m, key) \o <<"/chat/completions">>

\* Lines 231-244: the conversation, role by role, then the current query.
RECURSIVE HistoryMessages(_)
HistoryMessages(chat) ==
    IF chat = <<>> THEN <<>>
    ELSE LET msg == Head(chat)
             rest == HistoryMessages(Tail(chat))
         IN  CASE msg.role = "user" ->
                    <<[role |-> "user", content |-> msg.text]>> \o rest
               [] msg.role = "bot" ->
                    <<[role |-> "assistant", content |-> msg.text]>> \o rest
               [] msg.role = "system" ->
                    <<[role |-> "system", content |-> msg.text]>> \o rest
               [] OTHER -> rest

BuildMessages(chat, text) ==
    HistoryMessages(chat) \o <<[role |-> "user", content |-> text]>>

\* messages_to_prompt, lines 157-164: the pieces of the joined prompt.
RECURSIVE PromptLines(_)
PromptLines(message_list) ==
    IF message_list = <<>> THEN <<>>
    ELSE <<Head(message_list).role, ": ", Head(message_list).content, "\n">>
         \o PromptLines(Tail(message_list))

\* Faulty variant: the closing "assistant:" line is left out.
messages_to_prompt_open(message_list) == PromptLines(message_list)

messages_to_prompt(message_list) == PromptLines(message_list) \o <<"assistant:">>

\* params.get(key, default) of a number
NumParam(p, key, default) == IF key \in DOMAIN p THEN p[key] ELSE default

\* Faulty variant: the field is sent even when it is 0.
AddMaxTokens_Always(body, max_tokens) == body @@ [max_tokens |-> max_tokens]

\* Lines 278-280: max_tokens goes into the payload only when it is above 0.
AddMaxTokens(body, max_tokens) ==
    IF max_tokens > 0 THEN body @@ [max_tokens |-> max_tokens] ELSE body

\* Lines 258-280.  Sampling numbers are in hundredths (100 is 1.0).
BuildPayload(p, m, messages) ==
    LET max_tokens == NumParam(p, "max_tokens", 0)
        body ==
            IF is_responses_endpoint(m)
            THEN [model |-> m, input |-> messages_to_prompt(messages),
                  stream |-> TRUE]
            ELSE [model |-> m, messages |-> messages, stream |-> TRUE,
                  temperature |-> NumParam(p, "temperature", 100),
                  top_p |-> NumParam(p, "top_p", 100),
                  frequency_penalty |-> NumParam(p, "frequency_penalty", 0),
                  presence_penalty |-> NumParam(p, "presence_penalty", 0)]
    IN  AddMaxTokens(body, max_tokens)

\* Faulty variant: the key is sent without the scheme.
Authorization_Bare(key) == key

\* Lines 247-256: the header that carries the credential.
Authorization(key) == S_Bearer \o key

NoRequest ==
    [url |-> <<>>, authorization |-> <<>>, responses |-> FALSE, payload |-> <<>>]

\* Faulty variant: the hint and the url come from the key the caller typed,
\* whatever _get_token returned.
Resolve_StaleHint ==
    /\ pc = "resolve"
    /\ request' = [url |-> api_url(model, get_param(params, "api_key", None)),
                   authorization |-> Authorization(api_key),
                   responses |-> is_responses_endpoint(model),
                   payload |-> BuildPayload(params, model,
                                            BuildMessages(default_chat, QueryText))]
    /\ proxy_ep' = get_proxy_endpoint(get_param(params, "api_key", None))
    /\ pc' = "post"
    /\ UNCHANGED <<tbVars, params, api_key, model, brokerVars, post_count,
                   status_code, lines, current_event, out, transport_failed, err>>

\* run(), lines 193-280: everything between the credential and the POST.
Resolve ==
    /\ pc = "resolve"
    /\ request' = [url |-> api_url(model, api_key),
                   authorization |-> Authorization(api_key),
                   responses |-> is_responses_endpoint(model),
                   payload |-> BuildPayload(params, model,
                                            BuildMessages(default_chat, QueryText))]
    /\ proxy_ep' = get_proxy_endpoint(api_key)
    /\ pc' = "post"
    /\ UNCHANGED <<tbVars, params, api_key, model, brokerVars, post_count,
                   status_code, lines, current_event, out, transport_failed, err>>

-----------------------------------------------------------------------------
(* The streaming completion client: run(), lines 283-322 *)

\* Faulty variant: a transport failure is reported with the API error's text.
ConnectionError_AsApi(cause) == BotError(<<"API error (", "0", "): ", cause>>)

\* Line 322: what an httpx.RequestError becomes.
ConnectionError(cause) == BotError(<<"Connection error: ", cause>>)

\* Line 289
ApiError(code, body) == BotError(<<"API error (", StatusText(code), "): ", body>>)

\* Faulty variant: only server errors count as an error status.
IsErrorStatus_5xx(code) == code >= 500

\* Line 287
IsErrorStatus(code) == code # 200

\* Faulty variant: the end marker is compared without its brackets.
IsDone_Bare(data) == data = "DONE"

\* Line 300
IsDone(data) == data = "[DONE]"

\* Faulty variant: the delta is taken whatever the current event is.
ChunkContent_AnyEvent(chunk, responses, event) ==
    IF responses
    THEN IF chunk.delta # Absent THEN chunk.delta ELSE ""
    ELSE IF chunk.content # Absent THEN chunk.content ELSE ""

\* Lines 305-318: the content the code finds in a parsed object, "" for none.
ChunkContent(chunk, responses, event) ==
    IF responses
    THEN IF event = DeltaEvent /\ chunk.delta # Absent THEN chunk.delta ELSE ""
    ELSE IF chunk.content # Absent THEN chunk.content ELSE ""

\* Lines 305-318 on a JSON value that is no object: the chat branch calls
\* chunk.get, the responses branch evaluates "delta" in chunk once the event
\* name matches; neither exception is caught.  "" when nothing is raised.
ChunkRaises(responses, event) ==
    IF responses
    THEN IF event = DeltaEvent THEN "TypeError" ELSE ""
    ELSE "AttributeError"

\* Faulty variant: the JSONDecodeError is not caught.
OnInvalidJson_Raise(st) ==
    [st EXCEPT !.pc = "failed", !.err = Uncaught("JSONDecodeError")]

\* Line 320: a payload json.loads rejects is passed over.
OnInvalidJson(st) == st

\* Faulty variant: the newest fragment is put in front of the earlier ones.
Write_InFront(st, content) == [st EXCEPT !.out = <<content>> \o st.out]

\* Lines 310 and 318: output_msg.write(content)
Write(st, content) == [st EXCEPT !.out = Append(st.out, content)]

\* Lines 302-320: one data payload that is not the end marker.
HandlePayload(parsed, responses, st) ==
    CASE parsed.kind = "invalid" -> OnInvalidJson(st)
      [] parsed.kind = "scalar" ->
            IF ChunkRaises(responses, st.current_event) = "" THEN st
            ELSE [st EXCEPT !.pc = "failed",
                            !.err = Uncaught(ChunkRaises(responses, st.current_event))]
      [] OTHER ->
            LET content == ChunkContent(parsed, responses, st.current_event)
            IN  IF content # "" THEN Write(st, content) ELSE st

\* Lines 292-320: the body of the loop for one line.  st holds pc,
\* current_event, out and err.
HandleLine(line, responses, st) ==
    IF line.prefix = "event: "
    THEN [st EXCEPT !.current_event = line.rest]
    ELSE IF line.prefix = "data: "
         THEN IF IsDone(line.rest)
              THEN [st EXCEPT !.pc = "done"]
              ELSE HandlePayload(line.parsed, responses, st)
         ELSE st

\* Lines 283-287: open the output message and issue the POST.  Either the
\* transport fails, or a response with a status code arrives.
Post ==
    /\ pc = "post"
    /\ post_count' = post_count + 1
    /\ \/ \E cause \in TransportCauses :
            /\ transport_failed' = TRUE
            /\ err' = ConnectionError(cause)
            /\ pc' = "failed"
            /\ UNCHANGED <<status_code, current_event>>
       \/ \E code \in StatusCodes :
            /\ status_code' = code
            /\ pc' = IF IsErrorStatus(code) THEN "body" ELSE "stream"
            /\ current_event' = ""
            /\ UNCHANGED <<transport_failed, err>>
    /\ UNCHANGED <<tbVars, proxy_ep, params, api_key, model, brokerVars, request, lines, out>>

\* Faulty variant: an error status sends the request again.
ReadErrorBody_Retry ==
    /\ pc = "body"
    /\ pc' = "post"
    /\ UNCHANGED <<tbVars, proxy_ep, params, api_key, model, brokerVars, httpVars, err>>

\* Lines 288-289: read the body of an error response and raise the API
\* error; the read itself may fail in the transport.
ReadErrorBody ==
    /\ pc = "body"
    /\ \/ \E body \in ErrorBodies :
            /\ err' = ApiError(status_code, body)
            /\ UNCHANGED transport_failed
       \/ \E cause \in TransportCauses :
            /\ transport_failed' = TRUE
            /\ err' = ConnectionError(cause)
    /\ pc' = "failed"
    /\ UNCHANGED <<tbVars, proxy_ep, params, api_key, model, brokerVars, request, post_count,
                   status_code, lines, current_event, out>>

\* Lines 292-320: iter_lines() delivers one more line.
NextLine ==
    /\ pc = "stream"
    /\ Len(lines) < MaxLines
    /\ \E line \in LineInputs :
        LET st == HandleLine(line, request.responses,
                             [pc |-> pc, current_event |-> current_event,
                              out |-> out, err |-> err])
        IN  /\ lines' = Append(lines, line)
            /\ pc' = st.pc
            /\ current_event' = st.current_event
            /\ out' = st.out
            /\ err' = st.err
    /\ UNCHANGED <<tbVars, proxy_ep, params, api_key, model, brokerVars, request, post_count,
                   status_code, transport_failed>>

\* Line 292: the upstream closes the stream; the loop and run() end.
StreamClose ==
    /\ pc = "stream"
    /\ pc' = "done"
    /\ UNCHANGED <<tbVars, proxy_ep, params, api_key, model, brokerVars, httpVars, err>>

\* Faulty variant: a transport failure discards what was written.
StreamFail_Retract ==
    /\ pc = "stream"
    /\ \E cause \in TransportCauses :
        /\ transport_failed' = TRUE
        /\ err' = ConnectionError(cause)
    /\ out' = <<>>
    /\ pc' = "failed"
    /\ UNCHANGED <<tbVars, proxy_ep, params, api_key, model, brokerVars, request, post_count,
                   status_code, lines, current_event>>

\* Lines 292 and 321-322: the transport fails while a line is awaited.
StreamFail ==
    /\ pc = "stream"
    /\ \E cause \in TransportCauses :
        /\ transport_failed' = TRUE
        /\ err' = ConnectionError(cause)
    /\ pc' = "failed"
    /\ UNCHANGED <<tbVars, proxy_ep, params, api_key, model, brokerVars, request, post_count,
                   status_code, lines, current_event, out>>

-----------------------------------------------------------------------------
(* The token bot: copilot-token-bot.py, CopilotTokenBot.run *)

S_refresh == <<"r", "e", "f", "r", "e", "s", "h">>
S_reset   == <<"r", "e", "s", "e", "t">>

\* The limits of the two sliders of the settings.
PollIntervalMin == 5
PollIntervalMax == 30
PollCountMin == 1
PollCountMax == 60

\* The parameters the settings declare, and the values their controls give.
TbParamKeys == {"salt", "mode", "markdown", "poll_interval_secs", "poll_count"}

TbParamValues(k) ==
    CASE k = "salt" -> {"ns"}
      [] k = "mode" -> {"", "query_token"}
      [] k = "markdown" -> BOOLEAN
      [] k = "poll_interval_secs" -> {PollIntervalMin, PollIntervalMax}
      [] k = "poll_count" -> {PollCountMin, PollCountMax}

\* A parameter that is present with one of its values, or missing.
TbOpt(k) == {<<>>} \cup {k :> v : v \in TbParamValues(k)}

\* poe.query.parameters or {}
TbParamInputs ==
    { a @@ b @@ c @@ d @@ e :
        a \in TbOpt("salt"), b \in TbOpt("mode"), c \in TbOpt("markdown"),
        d \in TbOpt("poll_interval_secs"), e \in TbOpt("poll_count") }

\* poe.query.text
TbTextInputs ==
    { <<" ", "R", "e", "f", "r", "e", "s", "h", "\n">>,
      S_reset,
      <<"r", "e", "s", "e", "t", "s">>,
      <<"h", "i">> }

\* Python truthiness of the value of a parameter.
TbTruthy(k, v) ==
    CASE k \in {"salt", "mode"} -> v # ""
      [] k = "markdown" -> v
      [] OTHER -> v # 0

\* Lines 100-110: the configuration parameters that are passed through.
PassThrough(p) ==
    [k \in {key \in TbParamKeys \cap DOMAIN p : TbTruthy(key, p[key])} |-> p[k]]

\* Faulty variant: the text is compared as typed.
Directive_AsTyped(text) ==
    IF text = S_refresh THEN ("refresh" :> TRUE)
    ELSE IF text = S_reset THEN ("reset" :> TRUE)
    ELSE <<>>

\* Lines 113-117: the command the query text gives, if any.
Directive(text) ==
    LET query_text == Lower(Strip(text))
    IN  IF query_text = S_refresh THEN ("refresh" :> TRUE)
        ELSE IF query_text = S_reset THEN ("reset" :> TRUE)
        ELSE <<>>

\* What the bot yields: poe.info, poe.text or poe.data.
Info(t) == [kind |-> "info", text |-> t, data |-> NoData]
Text(t) == [kind |-> "text", text |-> t, data |-> NoData]
Data(d) == [kind |-> "data", text |-> <<>>, data |-> d]

\* A JSON object of the broker, with the fields the bot reads.
Status(st, token, code, uri) ==
    [status |-> st, copilot_token |-> token, user_code |-> code,
     verification_uri |-> uri]

\* chunk.data: none, text that json.loads rejects, null, or an object.
ChunkDataInputs ==
    { [kind |-> "none", value |-> NoData],
      [kind |-> "invalid", value |-> NoData],
      [kind |-> "null", value |-> NoData],
      [kind |-> "object", value |-> Status("acquired", "t", Absent, Absent)],
      [kind |-> "object", value |-> Status("authorization_pending", Absent, "UC", "uri")],
      [kind |-> "object", value |-> Status("error", Absent, Absent, Absent)],
      [kind |-> "object", value |-> Status(Absent, "t", Absent, Absent)] }

\* The chunks of the broker's stream: data with no text, or text with no data,
\* or an error status with text.
ChunkInputs ==
    { [data |-> d, text |-> ""] : d \in ChunkDataInputs }
    \cup { [data |-> d, text |-> "x"] :
            d \in {c \in ChunkDataInputs :
                      c.kind = "none" \/ c.value.status = "error"} }

\* dict.get(key, default)
Get(d, key, default) == IF d[key] = Absent THEN default ELSE d[key]

\* Faulty variant: data that json.loads rejects clears response_data.
ParseData_Clearing(old, data) ==
    CASE data.kind = "none" -> old
      [] data.kind \in {"invalid", "null"} -> NoData
      [] data.kind = "object" -> data.value

\* Lines 130-135: response_data after a chunk.
ParseData(old, data) ==
    CASE data.kind \in {"none", "invalid"} -> old
      [] data.kind = "null" -> NoData
      [] data.kind = "object" -> data.value

\* Lines 140-182: what is yielded once the stream has ended.
Render(data, text) ==
    IF data # NoData
    THEN LET status == Get(data, "status", "unknown")
         IN  IF status = "acquired"
             THEN << Text(<<"Copilot Token Acquired">>),
                     Text(<<"**Expires:** ", "copilot_expires_at">>),
                     Text(<<"**Acquired:** ", "copilot_acquired_at">>),
                     Text(<<"**Token:**">>),
                     Text(<<Get(data, "copilot_token", "")>>),
                     Text(<<"end of token">>),
                     Data(data) >>
             ELSE IF status = "authorization_pending"
             THEN << Text(<<"GitHub Authorization Required">>),
                     Text(<<"Visit: ", Get(data, "verification_uri", "")>>),
                     Text(<<"Enter code: **", Get(data, "user_code", ""), "**">>),
                     Text(<<"Send another message after authorizing.">>),
                     Data(data) >>
             ELSE << Text(<<"**Status:** ", status>>) >>
                  \o (IF text # <<>> THEN <<Text(text)>> ELSE <<>>)
                  \o << Data(data) >>
    ELSE IF text # <<>>
         THEN << Text(text) >>
         ELSE << Text(<<"No response from VSC-CPT server bot.">>) >>

\* Lines 95-129: the parameters are built, the info line is yielded and
\* VSC-CPT is called.
TbCall ==
    /\ tb_pc = "start"
    /\ vsc_cpt_params' = PassThrough(tb_params) @@ Directive(tb_text)
    /\ tb_out' = Append(tb_out, Info(<<"Calling VSC-CPT to get Copilot token...">>))
    /\ tb_pc' = "stream"
    /\ UNCHANGED <<tb_params, tb_text, response_text, response_data, chunks,
                   gatewayVars>>

\* Lines 125-137: one chunk of the stream.
TbChunk ==
    /\ tb_pc = "stream"
    /\ Len(chunks) < MaxChunks
    /\ \E chunk \in ChunkInputs :
        /\ chunks' = Append(chunks, chunk)
        /\ response_data' = ParseData(response_data, chunk.data)
        /\ response_text' = IF chunk.text # ""
                            THEN Append(response_text, chunk.text)
                            ELSE response_text
    /\ UNCHANGED <<tb_pc, tb_params, tb_text, vsc_cpt_params, tb_out,
                   gatewayVars>>

\* Lines 139-182: the stream has ended and the result is yielded.
TbRender ==
    /\ tb_pc = "stream"
    /\ tb_out' = tb_out \o Render(response_data, response_text)
    /\ tb_pc' = "done"
    /\ UNCHANGED <<tb_params, tb_text, vsc_cpt_params, response_text,
                   response_data, chunks, gatewayVars>>

-----------------------------------------------------------------------------
(* The specification *)

PcValues ==
    {"idle", "start", "quick", "flow", "requery", "resolve", "post", "body",
     "stream", "done", "failed"}

\* The token bot is not running.
TokenBotIdle ==
    /\ tb_pc = "idle"
    /\ tb_params = <<>>
    /\ tb_text = <<>>
    /\ vsc_cpt_params = <<>>
    /\ response_text = <<>>
    /\ response_data = NoData
    /\ chunks = <<>>
    /\ tb_out = <<>>

\* The gateway bot is invoked with parameters from P and a conversation from C.
GatewayInit(P, C) ==
    /\ pc = "start"
    /\ params \in P
    /\ api_key = None
    /\ model = None
    /\ proxy_ep = None
    /\ broker_calls = <<>>
    /\ broker_resps = <<>>
    /\ default_chat \in C
    /\ request = NoRequest
    /\ post_count = 0
    /\ status_code = 0
    /\ lines = <<>>
    /\ current_event = ""
    /\ out = <<>>
    /\ err = NoError
    /\ transport_failed = FALSE

Init == GatewayInit(ParamInputs, ChatInputs) /\ TokenBotIdle

Next ==
    \/ Start
    \/ QuickQuery
    \/ InteractiveFlow
    \/ RequeryAfterFlow
    \/ Resolve
    \/ Post
    \/ ReadErrorBody
    \/ NextLine
    \/ StreamClose
    \/ StreamFail

Spec == Init /\ [][Next]_vars

-----------------------------------------------------------------------------
(* Endpoint resolution over many credentials *)

\* The pieces credentials are put together from: the marker, the delimiter,
\* a letter, and the two halves of a scheme.
HintSegments ==
    {S_marker, <<";">>, <<"a">>, S_http, <<"s", ":", "/", "/">>}

\* Every credential made of at most n segments.
RECURSIVE CredentialsUpTo(_)
CredentialsUpTo(n) ==
    IF n = 0 THEN {<<>>}
    ELSE LET shorter == CredentialsUpTo(n - 1)
         IN  shorter \cup {c \o seg : c \in shorter, seg \in HintSegments}

Credentials == CredentialsUpTo(MaxSegs)

\* An internal model, a public model, and a name that only resembles the
\* internal prefix.
HintModels ==
    { S_copilot \o <<"x">>, S_gpt4o, <<"c", "o", "p", "i", "l", "o", "t">> }

\* Parameters with a credential as api key and one of those models.
HintParamInputs ==
    {[k \in {"api_key", "model"} |-> IF k = "api_key" THEN c ELSE m] :
        c \in Credentials, m \in HintModels}

HintInit == GatewayInit(HintParamInputs, ChatInputs) /\ TokenBotIdle

\* run() from its start to the prepared request.
HintNext ==
    \/ Start
    \/ Resolve

HintSpec == HintInit /\ [][HintNext]_vars

-----------------------------------------------------------------------------
(* Model, payload and prompt over many parameters and conversations *)

\* Model names a caller may send: the sentinel, plain and padded; a chat
\* model; codex names in two spellings; blanks only; nothing.
ShapeModels ==
    { S_custom, <<" ">> \o S_custom \o <<" ">>, S_gpt4o,
      <<"x", "-", "C", "o", "d", "e", "x">>, S_codex \o <<"-", "x">>,
      <<" ">>, <<>> }

\* Custom model names: a name, a codex name, a padded name, blanks, nothing.
ShapeCustomModels ==
    { <<"m">>, <<"C", "O", "D", "E", "X">>, <<" ", "m">>, <<" ">>, <<>> }

\* A parameter that may be missing: key :> value, or nothing for None.
OptParam(key, v) == IF v = None THEN <<>> ELSE (key :> v)

\* max_tokens: missing (-1 here), 0, or a positive number.
OptMaxTokens(t) == IF t = -1 THEN <<>> ELSE ("max_tokens" :> t)

\* Parameters with an api key, so that run() reaches the request.
ShapeParamInputs ==
    { ("api_key" :> <<"k">>) @@ OptParam("model", m) @@ OptParam("custom_model", c)
        @@ OptMaxTokens(t) :
        m \in ShapeModels \cup {None}, c \in ShapeCustomModels \cup {None},
        t \in -1..MaxTokens }

\* The turns a conversation is made of.
ShapeTurns ==
    { [role |-> "user", text |-> "q1"], [role |-> "bot", text |-> "r1"],
      [role |-> "system", text |-> "s1"] }

RECURSIVE ChatsUpTo(_)
ChatsUpTo(n) ==
    IF n = 0 THEN {<<>>}
    ELSE LET shorter == ChatsUpTo(n - 1)
         IN  shorter \cup {Append(c, t) : c \in shorter, t \in ShapeTurns}

\* Every conversation of at most MaxTurns turns.
ShapeChats == ChatsUpTo(MaxTurns)

ShapeInit == GatewayInit(ShapeParamInputs, ShapeChats) /\ TokenBotIdle

\* run() from its start to the prepared request.
ShapeNext ==
    \/ Start
    \/ Resolve

ShapeSpec == ShapeInit /\ [][ShapeNext]_vars

TypeOK ==
    /\ pc \in PcValues
    /\ post_count \in 0..1
    /\ Len(lines) <= MaxLines

-----------------------------------------------------------------------------
(* The token bot, and the requests both bots send to the broker *)

TbPcValues == {"idle", "start", "stream", "done"}

\* The gateway bot is not running.
GatewayIdle ==
    /\ pc = "idle"
    /\ params = <<>>
    /\ api_key = None
    /\ model = None
    /\ proxy_ep = None
    /\ broker_calls = <<>>
    /\ broker_resps = <<>>
    /\ default_chat = <<>>
    /\ request = NoRequest
    /\ post_count = 0
    /\ status_code = 0
    /\ lines = <<>>
    /\ current_event = ""
    /\ out = <<>>
    /\ err = NoError
    /\ transport_failed = FALSE

\* The token bot is invoked with parameters from P and a text from T.
TokenBotInit(P, T) ==
    /\ tb_pc = "start"
    /\ tb_params \in P
    /\ tb_text \in T
    /\ vsc_cpt_params = <<>>
    /\ response_text = <<>>
    /\ response_data = NoData
    /\ chunks = <<>>
    /\ tb_out = <<>>

TokenBotSpecInit == GatewayIdle /\ TokenBotInit(TbParamInputs, TbTextInputs)

TokenBotNext == TbCall \/ TbChunk \/ TbRender

TokenBotSpec == TokenBotSpecInit /\ [][TokenBotNext]_vars

\* One run of either bot, up to the end of its talk with the broker.
BrokerInit ==
    \/ GatewayInit(ParamInputs, ChatInputs) /\ TokenBotIdle
    \/ GatewayIdle /\ TokenBotInit(TbParamInputs, TbTextInputs)

BrokerNext ==
    \/ Start
    \/ QuickQuery
    \/ InteractiveFlow
    \/ RequeryAfterFlow
    \/ TbCall

BrokerSpec == BrokerInit /\ [][BrokerNext]_vars

-----------------------------------------------------------------------------
(* Vocabulary of the claims *)

\* A broker response that carries a usable credential.
HasCredential(r) ==
    r.json /\ r.status = "acquired" /\ r.copilot_token # None /\ r.copilot_token # <<>>

\* A broker response whose status is Acquired.
IsAcquired(r) == r.json /\ r.status = "acquired"

FullAcquisition == <<QueryTokenCall, AuthFlowCall, QueryTokenCall>>

InGetToken == pc \in {"quick", "flow", "requery"}

IsPrefix(s, t) == Len(s) <= Len(t) /\ SubSeq(t, 1, Len(s)) = s

\* The api key the caller typed, trimmed; empty when there is none.
CallerKey == IF "api_key" \in DOMAIN params THEN Strip(params["api_key"]) ELSE <<>>

Sent == post_count > 0

IsConnectionError(e) == e.kind = "BotError" /\ e.msg[1] = "Connection error: "
IsApiError(e)        == e.kind = "BotError" /\ e.msg[1] = "API error ("

NamesText(msg, text) == \E i \in 1..Len(msg) : msg[i] = text

-----------------------------------------------------------------------------
(* C1 *)

\* C1 as stated: after a first query with status Acquired the broker is never
\* called again; after a first query with any other status, _get_token ends
\* having made exactly the calls query, flow, query, in that order.
C1_AsStated ==
    broker_resps # <<>> =>
        /\ IsAcquired(broker_resps[1]) => broker_calls = <<QueryTokenCall>>
        /\ (~IsAcquired(broker_resps[1]) /\ ~InGetToken) =>
                broker_calls = FullAcquisition

\* C1, amended: what decides is whether the first query yields a non-empty
\* credential.  If it does, the broker is never called again.  If it does not
\* (any other status, free text, or Acquired with an empty or missing token),
\* _get_token ends having made exactly the calls query, flow, query, in that
\* order.  At every moment the calls made are a prefix of those three.
C1_Acquisition ==
    /\ IsPrefix(broker_calls, FullAcquisition)
    /\ broker_resps # <<>> =>
        /\ HasCredential(broker_resps[1]) => broker_calls = <<QueryTokenCall>>
        /\ (~HasCredential(broker_resps[1]) /\ ~InGetToken) =>
                broker_calls = FullAcquisition

\* The first query said Acquired without a token and the flow ran.
C1_Witness ==
    /\ pc = "resolve"
    /\ broker_calls = FullAcquisition
    /\ IsAcquired(broker_resps[1])

-----------------------------------------------------------------------------
(* C2 *)

\* C2 as stated: when the query after the flow is not Acquired, the request
\* has failed with a BotError whose message names the status of that query.
C2_AsStated ==
    (Len(broker_resps) = 3 /\ ~IsAcquired(broker_resps[3])) =>
        /\ pc = "failed"
        /\ err.kind = "BotError"
        /\ broker_resps[3].json => NamesText(err.msg, broker_resps[3].status)

\* C2, amended: when the query after the flow yields no non-empty credential,
\* the request has failed, before any upstream request, with the
\* authentication error, whose message is one fixed text whatever the status.
C2_AuthFailure ==
    (Len(broker_resps) = 3 /\ ~HasCredential(broker_resps[3])) =>
        /\ pc = "failed"
        /\ err = BotError(<<AuthErrorText>>)
        /\ ~Sent

\* The second query answered authorization_pending and the request failed.
C2_Witness ==
    /\ Len(broker_resps) = 3
    /\ broker_resps[3].status = "authorization_pending"
    /\ pc = "failed"
    /\ err.kind = "BotError"

-----------------------------------------------------------------------------
(* C3 *)

\* C3: the broker is called only when the caller typed no api key: with a
\* key that is non-empty after trimming no broker call is ever made and the
\* Authorization header of the request carries that key; and whenever a
\* broker call has been made the caller's key was empty.
C3_BrokerOnlyWithoutKey ==
    /\ CallerKey # <<>> =>
        /\ broker_calls = <<>>
        /\ pc \notin {"start", "resolve"} => request.authorization = <<"Bearer ">> \o CallerKey
    /\ broker_calls # <<>> => CallerKey = <<>>

\* A request was sent with the caller's own key.
C3_Witness ==
    /\ CallerKey # <<>>
    /\ Sent
    /\ request.authorization = <<"Bearer ", "k">>

-----------------------------------------------------------------------------
(* C4 *)

GotErrorStatus == status_code # 0 /\ status_code # 200

\* C4 as stated: once a response whose status is not 200 has been handled,
\* the request has failed with the API error that carries the status code
\* and the response body, no line was read and nothing was written.
C4_AsStated ==
    GotErrorStatus =>
        /\ lines = <<>>
        /\ out = <<>>
        /\ pc # "body" =>
            /\ pc = "failed"
            /\ \E body \in ErrorBodies : err = ApiError(status_code, body)

\* C4, amended: a response whose status is not 200 is never streamed: no
\* line is read and nothing is written, and the request fails.  The error is
\* the API error carrying the status code and the response body when the
\* body could be read; when reading the body fails in the transport it is
\* the connection error instead.
C4_ErrorStatus ==
    GotErrorStatus =>
        /\ pc \in {"body", "failed"}
        /\ lines = <<>>
        /\ out = <<>>
        /\ (pc = "failed" /\ ~transport_failed) =>
                \E body \in ErrorBodies :
                    err = BotError(<<"API error (", StatusText(status_code), "): ", body>>)
        /\ (pc = "failed" /\ transport_failed) => IsConnectionError(err)

\* A 401 ended in the API error that carries "401" and the body.
C4_Witness ==
    /\ status_code = 401
    /\ pc = "failed"
    /\ err = BotError(<<"API error (", "401", "): ", "bad key">>)

-----------------------------------------------------------------------------
(* C5 *)

HasDone == \E i \in 1..Len(lines) : lines[i] = DoneLine

\* C5: the first "data: [DONE]" line ends the stream normally: the step
\* that reads it writes nothing, raises nothing and ends the request as
\* done, and from then on no line is read and nothing is written.
C5_DoneTerminates ==
    [][ /\ (lines' # lines /\ lines'[Len(lines')] = DoneLine) =>
            (out' = out /\ err' = NoError /\ pc' = "done")
        /\ HasDone =>
            (lines' = lines /\ out' = out /\ err' = NoError /\ pc' = "done") ]_vars

\* A stream that relayed something and then ended on [DONE].
C5_Witness ==
    /\ pc = "done"
    /\ Len(lines) >= 2
    /\ lines[Len(lines)] = DoneLine
    /\ out # <<>>

-----------------------------------------------------------------------------
(* C6 *)

\* A data line that is not the end marker and that json.loads rejects.
IsMalformed(line) ==
    line.prefix = "data: " /\ line.rest # "[DONE]" /\ line.parsed.kind = "invalid"

HasMalformed == \E i \in 1..Len(lines) : IsMalformed(lines[i])

\* The fragment an object line carries for the shape of the request.
Carried(line, responses) == IF responses THEN line.parsed.delta ELSE line.parsed.content

\* A line that carries a non-empty fragment which the shape relays.
IsContentLine(line, responses, event) ==
    /\ line.prefix = "data: "
    /\ line.parsed.kind = "object"
    /\ Carried(line, responses) \notin {Absent, ""}
    /\ responses => event = DeltaEvent

-----------------------------------------------------------------------------
(* C7 *)

\* The fragments a sequence of lines carries for a shape, in order, up to the
\* first [DONE]: one per content line.  event is the name given by the most
\* recent event line.
RECURSIVE Fragments(_, _, _)
Fragments(ls, responses, event) ==
    IF ls = <<>> THEN <<>>
    ELSE LET line == Head(ls) IN
         IF line = DoneLine THEN <<>>
         ELSE IF line.prefix = "event: "
              THEN Fragments(Tail(ls), responses, line.rest)
              ELSE IF IsContentLine(line, responses, event)
                   THEN <<Carried(line, responses)>>
                        \o Fragments(Tail(ls), responses, event)
                   ELSE Fragments(Tail(ls), responses, event)

\* C7: at every moment the writes to the output are exactly the non-empty
\* fragments of the content lines read so far, before [DONE], one write per
\* fragment and in the order of the lines.
C7_WritesAreFragments == out = Fragments(lines, request.responses, "")

\* Two fragments relayed in order, around a line with empty content.
C7_Witness ==
    /\ out = <<"b", "a">>
    /\ Len(lines) = 3
    /\ lines[2] = DataLine("{,}", Object("", ""))

-----------------------------------------------------------------------------
(* C8 *)

Failed == err # NoError

\* C8: the output only grows by appending, the step that raises an error
\* leaves what was written as it is, and after an error nothing more is
\* written.
C8_NoRetraction ==
    [][ /\ IsPrefix(out, out')
        /\ Failed' => out' = out ]_vars

\* A transport failure after two fragments were relayed.
C8_Witness ==
    /\ pc = "failed"
    /\ IsConnectionError(err)
    /\ Len(out) = 2

-----------------------------------------------------------------------------
(* C9 *)

\* C9: nothing is retried: the POST is issued at most once, the broker is
\* called at most three times, and once an error was raised no broker call
\* and no POST follows.
C9_NoRetry ==
    [][ /\ post_count' <= 1
        /\ Len(broker_calls') <= 3
        /\ Failed => (post_count' = post_count /\ broker_calls' = broker_calls) ]_vars

\* A request that used all three broker calls and one POST, and failed.
C9_Witness ==
    /\ pc = "failed"
    /\ post_count = 1
    /\ Len(broker_calls) = 3

-----------------------------------------------------------------------------
(* C10 *)

\* C10: a transport failure, before or during streaming, ends the request
\* with the connection error and never with the API error; the connection
\* error is raised for nothing else; and a status other than 200, received
\* without a transport failure, ends with the API error.
C10_DistinctErrors ==
    /\ transport_failed => (pc = "failed" /\ IsConnectionError(err) /\ ~IsApiError(err))
    /\ IsConnectionError(err) => transport_failed
    /\ IsApiError(err) => (GotErrorStatus /\ ~transport_failed)
    /\ (GotErrorStatus /\ pc = "failed" /\ ~transport_failed) => IsApiError(err)

\* The transport failed in the middle of a stream.
C10_Witness ==
    /\ transport_failed
    /\ status_code = 200
    /\ lines # <<>>
    /\ IsConnectionError(err)

-----------------------------------------------------------------------------
(* C11 *)

\* The marker starts at position i of s.
MarkerAt(s, i) == SubSeq(s, i, i + Len(S_marker) - 1) = S_marker

HasMarker(s) == \E i \in 1..(Len(s) - Len(S_marker) + 1) : MarkerAt(s, i)

\* What follows the first marker of s.
AfterFirstMarker(s) ==
    LET first == CHOOSE i \in 1..(Len(s) - Len(S_marker) + 1) :
                    MarkerAt(s, i) /\ \A j \in 1..(i - 1) : ~MarkerAt(s, j)
    IN  SubSeq(s, first + Len(S_marker), Len(s))

NoSemicolon(x) == \A i \in 1..Len(x) : x[i] # ";"

\* x is rest up to its first ";", all of rest when it has none.
UpToSemicolon(x, rest) ==
    /\ IsPrefix(x, rest)
    /\ NoSemicolon(x)
    /\ Len(x) < Len(rest) => rest[Len(x) + 1] = ";"

\* C11: for every credential the hint run() extracts is None when the
\* credential has no marker "proxy-ep=", and otherwise the text between the
\* first marker and the next ";", or the rest of the credential when no ";"
\* follows; an empty or missing credential gives None.
C11_HintExtraction ==
    /\ get_proxy_endpoint(<<>>) = None
    /\ get_proxy_endpoint(None) = None
    /\ pc = "post" =>
        IF HasMarker(api_key)
        THEN UpToSemicolon(proxy_ep, AfterFirstMarker(api_key))
        ELSE proxy_ep = None

\* A hint cut at the first of two ";" after the marker.
C11_Witness ==
    /\ pc = "post"
    /\ api_key = S_marker \o <<"a", ";", ";">>
    /\ proxy_ep = <<"a">>

-----------------------------------------------------------------------------
(* C16 *)

\* The host part of the request's url: all but the path piece.
BaseOf(url) == SubSeq(url, 1, Len(url) - 1)

HasScheme(h) ==
    \/ StartsWith(h, <<"h", "t", "t", "p", ":", "/", "/">>)
    \/ StartsWith(h, <<"h", "t", "t", "p", "s", ":", "/", "/">>)

-----------------------------------------------------------------------------
(* C12 *)

\* The max_tokens the caller set, 0 when unset.
CallerMaxTokens ==
    IF "max_tokens" \in DOMAIN params THEN params["max_tokens"] ELSE 0

\* C12: in both request shapes, the payload has no max_tokens field when the
\* caller's max_tokens is 0 or unset, and has it with exactly the caller's
\* value N when N > 0.
C12_MaxTokens ==
    pc = "post" =>
        /\ CallerMaxTokens = 0 => "max_tokens" \notin DOMAIN request.payload
        /\ CallerMaxTokens > 0 =>
            /\ "max_tokens" \in DOMAIN request.payload
            /\ request.payload["max_tokens"] = CallerMaxTokens

\* A responses-shaped payload that carries the caller's cap.
C12_Witness ==
    /\ pc = "post"
    /\ request.responses
    /\ CallerMaxTokens = 2
    /\ "max_tokens" \in DOMAIN request.payload
    /\ request.payload["max_tokens"] = 2

-----------------------------------------------------------------------------
(* C13 *)

\* A parameter as get_param hands it over: trimmed, None when missing.
Trimmed(key) == IF key \in DOMAIN params THEN Strip(params[key]) ELSE None

\* C13 as stated: the model is the custom override when the model parameter
\* is "custom" and the model parameter otherwise (gpt-4o standing in for a
\* missing one), and it is never empty.
C13_AsStated ==
    pc # "start" =>
        /\ model = IF Trimmed("model") = S_custom
                   THEN IF Trimmed("custom_model") = None
                        THEN S_gpt4o ELSE Trimmed("custom_model")
                   ELSE IF Trimmed("model") = None
                        THEN S_gpt4o ELSE Trimmed("model")
        /\ model # <<>>

-----------------------------------------------------------------------------
(* C15 *)

\* The name has "codex" in it, in any letter case.
IsCodexName(m) ==
    \E i \in 1..(Len(m) - 4) :
        /\ m[i] \in {"c", "C"}
        /\ m[i + 1] \in {"o", "O"}
        /\ m[i + 2] \in {"d", "D"}
        /\ m[i + 3] \in {"e", "E"}
        /\ m[i + 4] \in {"x", "X"}

PathOf(url) == url[Len(url)]

\* C15 as stated: a codex model gets the legacy completions shape and a url
\* that ends in "/completions" in place of "/chat/completions"; any other
\* model gets the chat shape and "/chat/completions".
C15_AsStated ==
    pc = "post" =>
        IF IsCodexName(model)
        THEN PathOf(request.url) = "/completions" /\ ~request.responses
        ELSE PathOf(request.url) = "/chat/completions" /\ ~request.responses

\* C15, amended: a model with "codex" in its name, in any letter case, gets
\* the responses shape and the url base host + "/responses", with a payload
\* of model, input and stream; any other model gets the chat shape and the
\* url base host + "/chat/completions", with a payload that has messages.
C15_CodexUsesResponses ==
    pc = "post" =>
        IF IsCodexName(model)
        THEN /\ PathOf(request.url) = "/responses"
             /\ request.responses
             /\ "input" \in DOMAIN request.payload
             /\ "messages" \notin DOMAIN request.payload
        ELSE /\ PathOf(request.url) = "/chat/completions"
             /\ ~request.responses
             /\ "messages" \in DOMAIN request.payload
             /\ "input" \notin DOMAIN request.payload

\* A codex model spelled with capitals, sent to /responses.
C15_Witness ==
    /\ pc = "post"
    /\ model = <<"x", "-", "C", "o", "d", "e", "x">>
    /\ PathOf(request.url) = "/responses"
    /\ request.responses

-----------------------------------------------------------------------------
(* C18 *)

\* The role and the text of turn i of the messages run() builds: the turns
\* of the conversation, then the current query as a user turn.
TurnRole(i) ==
    IF i > Len(default_chat) THEN "user"
    ELSE IF default_chat[i].role = "bot" THEN "assistant" ELSE default_chat[i].role

TurnText(i) == IF i > Len(default_chat) THEN QueryText ELSE default_chat[i].text

\* C18: the prompt of a responses-shaped request is, for every conversation,
\* one line "<role>: <text>" per turn, in the order of the turns, each ended
\* by a newline, and then the line "assistant:"; the prompt of no turns at
\* all is the line "assistant:" alone.
C18_Prompt ==
    /\ messages_to_prompt(<<>>) = <<"assistant:">>
    /\ (pc = "post" /\ request.responses) =>
        LET input == request.payload["input"]
            n == Len(default_chat) + 1
        IN  /\ Len(input) = 4 * n + 1
            /\ input[4 * n + 1] = "assistant:"
            /\ \A i \in 1..n :
                /\ input[4 * i - 3] = TurnRole(i)
                /\ input[4 * i - 2] = ": "
                /\ input[4 * i - 1] = TurnText(i)
                /\ input[4 * i] = "\n"

\* A prompt of three turns, the second of them the assistant's.
C18_Witness ==
    /\ pc = "post"
    /\ request.responses
    /\ Len(default_chat) = 2
    /\ default_chat[2].role = "bot"
    /\ request.payload["input"][5] = "assistant"

-----------------------------------------------------------------------------
(* C17 *)

\* A turn of the conversation as a message: bot becomes assistant.
AsMessage(turn) ==
    [role |-> IF turn.role = "bot" THEN "assistant" ELSE turn.role,
     content |-> turn.text]

\* C17 as stated: the messages of a chat-shaped request are the turns the
\* caller supplied, in their order and with their roles, followed by the
\* current query as a user turn, whether or not the auth flow has run.
C17_AsStated ==
    (pc = "post" /\ ~request.responses) =>
        \E chat \in ChatInputs :
            request.payload["messages"] =
                [i \in 1..Len(chat) |-> AsMessage(chat[i])]
                \o <<[role |-> "user", content |-> QueryText]>>

-----------------------------------------------------------------------------
(* C19 *)

\* The name given by the last event line of ls, "" when there is none.
LastEvent(ls) ==
    LET at == {i \in 1..Len(ls) : ls[i].prefix = "event: "}
    IN  IF at = {} THEN ""
        ELSE ls[CHOOSE i \in at : \A j \in at : j <= i].rest

\* ls without its event lines.
RECURSIVE WithoutEvents(_)
WithoutEvents(ls) ==
    IF ls = <<>> THEN <<>>
    ELSE IF Head(ls).prefix = "event: " THEN WithoutEvents(Tail(ls))
         ELSE <<Head(ls)>> \o WithoutEvents(Tail(ls))

\* C19: in the responses shape, reading an event line writes nothing, and
\* reading a data line writes its delta exactly when the last event line
\* before it names response.output_text.delta and the payload is an object
\* with a non-empty delta field, however many data lines came in between;
\* a line of neither kind writes nothing.  In the chat shape the writes are
\* those of the same lines with the event lines taken out.
C19_EventState ==
    /\ [](~request.responses => out = Fragments(WithoutEvents(lines), FALSE, ""))
    /\ [][ \A line \in LineInputs :
              (request.responses /\ lines' = Append(lines, line)) =>
                  IF /\ line.prefix = "data: "
                     /\ LastEvent(lines) = DeltaEvent
                     /\ line.parsed.kind = "object"
                     /\ line.parsed.delta \notin {Absent, ""}
                  THEN out' = Append(out, line.parsed.delta)
                  ELSE out' = out ]_vars

\* One delta event line, then two data lines, both relayed.
C19_Witness ==
    /\ request.responses
    /\ Len(lines) = 3
    /\ lines[1] = EventLine(DeltaEvent)
    /\ out = <<"b", "a">>

-----------------------------------------------------------------------------
(* C14 *)

\* The text is the word, in any letter case, with blanks around it at most.
SaysWord(text, word) ==
    \E i \in 1..Len(text), j \in 1..Len(text) :
        /\ i <= j
        /\ Lower(SubSeq(text, i, j)) = word
        /\ \A k \in 1..Len(text) : (k < i \/ k > j) => IsSpace(text[k])

\* The request to the broker carries the flag, set.
Carries(flag) == flag \in DOMAIN vsc_cpt_params /\ vsc_cpt_params[flag] = TRUE

\* The token bot has sent its request to the broker.
TbCalled == tb_pc \in {"stream", "done"}

\* The configuration parameters the caller gave with a truthy value.
GivenKeys ==
    {k \in TbParamKeys \cap DOMAIN tb_params : TbTruthy(k, tb_params[k])}

\* refresh is carried exactly when the text says refresh, reset exactly when
\* it says reset, and never both.
DirectivesFollowText ==
    /\ Carries("refresh") <=> SaysWord(tb_text, S_refresh)
    /\ Carries("reset") <=> SaysWord(tb_text, S_reset)
    /\ ~(Carries("refresh") /\ Carries("reset"))
    /\ \A flag \in {"refresh", "reset"} :
        flag \in DOMAIN vsc_cpt_params => vsc_cpt_params[flag] = TRUE

\* C14 as stated: the directives follow the text, and a request with a
\* directive carries none of salt, mode, markdown, poll_interval_secs and
\* poll_count.
C14_AsStated ==
    TbCalled =>
        /\ DirectivesFollowText
        /\ (Carries("refresh") \/ Carries("reset")) =>
               TbParamKeys \cap DOMAIN vsc_cpt_params = {}

\* C14: the directives follow the text (refresh exactly when the trimmed,
\* lower-cased text is refresh, reset exactly when it is reset, never both),
\* and with or without a directive the request carries exactly the
\* configuration parameters the caller gave with a truthy value, unchanged.
C14_Directives ==
    TbCalled =>
        /\ DirectivesFollowText
        /\ TbParamKeys \cap DOMAIN vsc_cpt_params = GivenKeys
        /\ \A k \in GivenKeys : vsc_cpt_params[k] = tb_params[k]

\* A padded, capitalised refresh was sent together with a salt and a mode.
C14_Witness ==
    /\ TbCalled
    /\ tb_text # S_refresh
    /\ Carries("refresh")
    /\ {"salt", "mode"} \subseteq DOMAIN vsc_cpt_params

-----------------------------------------------------------------------------
(* C20 *)

\* A parameter of the token bot's request, or the value that stands for none.
SentParam(key, none) ==
    IF key \in DOMAIN vsc_cpt_params THEN vsc_cpt_params[key] ELSE none

\* The mode, poll_interval_secs and poll_count of every request sent to the
\* broker so far, by the gateway and by the token bot; 0 is no value carried.
BrokerRequests ==
    { [mode |-> broker_calls[i].mode,
       poll_interval_secs |-> broker_calls[i].poll_interval_secs,
       poll_count |-> broker_calls[i].poll_count] : i \in 1..Len(broker_calls) }
    \cup (IF TbCalled
          THEN { [mode |-> SentParam("mode", ""),
                  poll_interval_secs |-> SentParam("poll_interval_secs", 0),
                  poll_count |-> SentParam("poll_count", 0)] }
          ELSE {})

\* The polling parameters a request carries are within the sliders' limits.
PollingInRange(r) ==
    /\ r.poll_interval_secs # 0 =>
           r.poll_interval_secs \in PollIntervalMin..PollIntervalMax
    /\ r.poll_count # 0 => r.poll_count \in PollCountMin..PollCountMax

\* C20 as stated: every request to the broker has the mode empty or
\* query_token, a poll_interval_secs within 5..30 if any and a poll_count
\* within 1..60 if any.
C20_AsStated ==
    \A r \in BrokerRequests :
        r.mode \in {"", "query_token"} /\ PollingInRange(r)

\* C20: every request to the broker has the mode empty, query_token or
\* auth_flow, and polling parameters within 5..30 and 1..60 if any; auth_flow
\* is the mode of the gateway's second call and of no other request, and the
\* gateway's first and third calls are query_token calls without polling
\* parameters.
C20_BrokerRequests ==
    /\ \A r \in BrokerRequests :
        r.mode \in {"", "query_token", "auth_flow"} /\ PollingInRange(r)
    /\ \A i \in 1..Len(broker_calls) :
        /\ broker_calls[i].mode = "auth_flow" <=> i = 2
        /\ i # 2 => /\ broker_calls[i].mode = "query_token"
                    /\ broker_calls[i].poll_interval_secs = 0
                    /\ broker_calls[i].poll_count = 0
    /\ TbCalled => SentParam("mode", "") \in {"", "query_token"}

\* The gateway has made its three calls.
C20_Witness ==
    /\ Len(broker_calls) = 3
    /\ broker_calls[2].poll_count = 30

-----------------------------------------------------------------------------
(* C21 *)

\* The last response of the broker, when it has been asked.
LastResponse == broker_resps[Len(broker_resps)]

\* The broker path is over and its last answer carried no usable credential.
BrokerGaveNothing ==
    /\ broker_resps # <<>>
    /\ ~InGetToken
    /\ ~HasCredential(LastResponse)

\* C21: once the POST has been issued the credential is not empty, it is the
\* caller's key (trimmed) or the token of the broker's last answer, and the
\* Authorization header is "Bearer " followed by it; and when the broker path
\* ends with no credential, an Acquired answer with an empty or missing token
\* included, the run has failed with no request prepared, no POST issued and
\* nothing written.
C21_Credential ==
    /\ Sent =>
        /\ api_key # None /\ api_key # <<>>
        /\ request.authorization = <<"Bearer ">> \o api_key
        /\ IF CallerKey # <<>>
           THEN api_key = CallerKey /\ broker_calls = <<>>
           ELSE /\ broker_resps # <<>>
                /\ HasCredential(LastResponse)
                /\ api_key = LastResponse.copilot_token
    /\ BrokerGaveNothing =>
        /\ pc = "failed"
        /\ err = AuthError
        /\ request = NoRequest
        /\ post_count = 0
        /\ out = <<>>

\* The POST went out with the token the broker gave after the auth flow.
C21_Witness ==
    /\ Sent
    /\ Len(broker_calls) = 3
    /\ request.authorization = <<"Bearer ">> \o BrokerToken

-----------------------------------------------------------------------------
(* C22 *)

\* The endpoint has been resolved and the request prepared.
Resolved == request # NoRequest

\* The credential the Authorization header carries.
HeaderKey == Tail(request.authorization)

\* C22: the broker is never called once the endpoint is resolved, and never
\* after the request is prepared does the credential, the hint, the url or
\* the shape change; the request is prepared in one step, from no request;
\* and the hint is the one held by the credential of the Authorization
\* header, which is the final credential, and for an internal model with a
\* hint it is the host of the url.
C22_Ordering ==
    /\ [](Resolved =>
            /\ ~InGetToken /\ pc # "start"
            /\ HeaderKey = api_key
            /\ IF HasMarker(HeaderKey)
               THEN UpToSemicolon(proxy_ep, AfterFirstMarker(HeaderKey))
               ELSE proxy_ep = None
            /\ (StartsWith(model, S_copilot) /\ proxy_ep # None /\ proxy_ep # <<>>) =>
                   BaseOf(request.url) \in {proxy_ep, <<"https://">> \o proxy_ep})
    /\ [][ /\ Resolved =>
               /\ request' = request
               /\ proxy_ep' = proxy_ep
               /\ api_key' = api_key
               /\ broker_calls' = broker_calls
           /\ request' # request => pc = "resolve" /\ ~Resolved
           /\ broker_calls' # broker_calls => ~Resolved /\ ~Resolved' ]_vars

\* A request was sent to the host named by the hint of a token that the
\* broker issued after the auth flow.
C22_Witness ==
    /\ Sent
    /\ Len(broker_calls) = 3
    /\ api_key = BrokerToken
    /\ proxy_ep = <<"h">>
    /\ request.url = <<"https://", "h", "/chat/completions">>

-----------------------------------------------------------------------------
(* C23 *)

\* The chunks whose data json.loads accepted.
ParsedAt == {i \in 1..Len(chunks) : chunks[i].data.kind \in {"null", "object"}}

\* The value of the last of them: NoData when there is none, and also when
\* that value is null.
LastParsed ==
    IF ParsedAt = {} THEN NoData
    ELSE chunks[CHOOSE i \in ParsedAt : \A j \in ParsedAt : j <= i].data.value

\* The texts of the chunks that had one, in order.
RECURSIVE TextsOf(_)
TextsOf(cs) ==
    IF cs = <<>> THEN <<>>
    ELSE (IF Head(cs).text # "" THEN <<Head(cs).text>> ELSE <<>>)
         \o TextsOf(Tail(cs))

\* A text was yielded that has the piece in it.
Shows(piece) ==
    \E i \in 1..Len(tb_out) :
        /\ tb_out[i].kind = "text"
        /\ \E j \in 1..Len(tb_out[i].text) : tb_out[i].text[j] = piece

\* The text t was yielded as it is.
ShowsText(t) ==
    \E i \in 1..Len(tb_out) : tb_out[i].kind = "text" /\ tb_out[i].text = t

\* The four headings, one for each outcome that has one.
H_acquired == "Copilot Token Acquired"
H_pending  == "GitHub Authorization Required"
H_status   == "**Status:** "
H_none     == "No response from VSC-CPT server bot."

\* The outcomes the run has rendered.
Outcomes ==
    {h \in {H_acquired, H_pending, H_status, H_none} : Shows(h)}
    \cup (IF /\ Len(tb_out) = 2
             /\ tb_out[2].kind = "text"
             /\ tb_out[2].text = response_text
             /\ response_text # <<>>
          THEN {"free text"} ELSE {})

====
